---- MODULE Spec2Model ----
(***************************************************************************)
(* Model of auth0_import_export.py: one run of create_auth0_import over a  *)
(* decoded users export and a decoded password hash export.                *)
(*                                                                         *)
(* A Python dict of JSON fields is a function from its keys to its values. *)
(* The two indexes are dicts whose iteration order matters, so they carry  *)
(* their keys in insertion order.  A line of an input file is abstracted   *)
(* to what the JSON parser makes of it: an object, or one of the ways of   *)
(* not being one.                                                          *)
(***************************************************************************)
EXTENDS Integers, Sequences, FiniteSets, TLC

VARIABLES
    user_lines,                   \* get_user_lines(users_file_path)
    hash_lines,                   \* the lines of the (inner) hashes file
    hash_zip_entries,             \* zip_file.namelist() length; 1 also stands for a plain text file
    pc,                           \* position in create_auth0_import
    user_info_by_email,
    password_hashes_by_email,
    database_name,
    cursor,                       \* position of the for loop in user_info_by_email.items()
    output,
    users_with_missing_passwords,
    stdout,                       \* documents printed to sys.stdout
    stderr,                       \* diagnostics printed to sys.stderr
    exit_status,
    renormalized                  \* result of running the field renames again on an output record

vars == <<user_lines, hash_lines, hash_zip_entries, pc, user_info_by_email,
          password_hashes_by_email, database_name, cursor, output,
          users_with_missing_passwords, stdout, stderr, exit_status, renormalized>>

-----------------------------------------------------------------------------
(* Bounds of the model *)

MaxUserLines == 2

MaxHashLines == 2

-----------------------------------------------------------------------------
(* Python values.  A JSON scalar is carried as its text: the program looks  *)
(* into none but the strings.                                              *)

\* the value None, where a string is expected
PyNone == "<None>"

NoError == "none"

NotExited == "running"

\* the status of a run that falls off the end of the script
ExitNormal == 0

\* the status of an interpreter that dies of an uncaught exception
ExitUncaught == 1

\* a bug: malformed input reported, and the run ended as a success
ExitInvalidAsSuccess == ExitNormal

\* exit(-1): the status handed to exit() on malformed input
ExitInvalid == -1

\* a bug: no users taken for a fatal error
ExitNoUsersAsFatal == ExitInvalid

\* exit(0): the status of the "no users found" exit
ExitNoUsers == 0

\* 'auth0|'
Auth0Prefix == "auth0|"

\* a bug: "is not None" for the truth of the value
TruthyNotNone(v) == TRUE

\* bool(v) of a str
Truthy(v) == v # ""

\* str.startswith
StartsWith(s, prefix) ==
    /\ Len(s) >= Len(prefix)
    /\ SubSeq(s, 1, Len(prefix)) = prefix

\* s[n:]
SliceFrom(s, n) == SubSeq(s, n + 1, Len(s))

-----------------------------------------------------------------------------
(* dicts of JSON fields *)

EmptyDict == [k \in {} |-> ""]

Has(d, k) == k \in DOMAIN d

\* del d[k]
Del(d, k) == [x \in (DOMAIN d) \ {k} |-> d[x]]

\* d[k] = v
Put(d, k, v) == [x \in (DOMAIN d) \cup {k} |-> IF x = k THEN v ELSE d[x]]

(* dicts with an iteration order: the indexes *)

EmptyIndex == [keys |-> <<>>, vals |-> EmptyDict]

\* a bug: the first record of a key is kept
IndexSetFirstWins(index, email, record) ==
    IF Has(index.vals, email)
    THEN index
    ELSE [keys |-> Append(index.keys, email), vals |-> Put(index.vals, email, record)]

\* index[email] = record: a new key goes last, a known key keeps its place
IndexSet(index, email, record) ==
    [keys |-> IF Has(index.vals, email) THEN index.keys ELSE Append(index.keys, email),
     vals |-> Put(index.vals, email, record)]

-----------------------------------------------------------------------------
(* Lines of the input files *)

ObjectLine(record) == [kind |-> "object", json |-> record]

\* a line that is no JSON and breaks any text it is part of
MalformedLine == [kind |-> "malformed", json |-> EmptyDict]

\* a line of white space
BlankLine == [kind |-> "blank", json |-> EmptyDict]

\* several JSON objects on one line, separated by commas
MultiLine == [kind |-> "multi", json |-> EmptyDict]

\* json.loads("[" + ",".join(ndjson_lines) + "]") succeeds
verify_valid_ndjson_lines(ndjson_lines) ==
    \/ Len(ndjson_lines) = 0
    \/ Len(ndjson_lines) = 1 /\ ndjson_lines[1].kind = "blank"
    \/ \A i \in 1..Len(ndjson_lines) : ndjson_lines[i].kind \in {"object", "multi"}

\* json.loads(line)
json_loads(line) ==
    IF line.kind = "object"
    THEN [raised |-> NoError, value |-> line.json]
    ELSE [raised |-> "JSONDecodeError", value |-> EmptyDict]

\* the indexing loops of get_user_info_by_email and get_password_hashes_by_email
RECURSIVE IndexLines(_, _, _, _)
IndexLines(lines, key_field, i, index) ==
    IF i > Len(lines)
    THEN [raised |-> NoError, index |-> index]
    ELSE LET parsed == json_loads(lines[i]) IN
         IF parsed.raised # NoError
         THEN [raised |-> parsed.raised, index |-> index]
         ELSE IF ~Has(parsed.value, key_field)
         THEN [raised |-> "KeyError", index |-> index]
         ELSE IndexLines(lines, key_field, i + 1,
                         IndexSet(index, parsed.value[key_field], parsed.value))

\* get_user_info_by_email / get_password_hashes_by_email, after the file is read
IndexFile(lines, key_field) ==
    IF ~verify_valid_ndjson_lines(lines)
    THEN [outcome |-> "invalid", index |-> EmptyIndex]
    ELSE LET r == IndexLines(lines, key_field, 1, EmptyIndex) IN
         IF r.raised # NoError
         THEN [outcome |-> r.raised, index |-> EmptyIndex]
         ELSE [outcome |-> "ok", index |-> r.index]

get_user_info_by_email(lines) == IndexFile(lines, "Email")

get_password_hashes_by_email(lines) == IndexFile(lines, "email")

\* get_auth0_db_name: the connection of the first item of the dict
get_auth0_db_name(hashes) ==
    IF hashes.keys = <<>>
    THEN [raised |-> "StopIteration", name |-> PyNone]
    ELSE LET a_hash_entry == hashes.vals[hashes.keys[1]] IN
         IF Has(a_hash_entry, "connection")
         THEN [raised |-> NoError, name |-> a_hash_entry["connection"]]
         ELSE [raised |-> "KeyError", name |-> PyNone]

-----------------------------------------------------------------------------
(* The field renames of the reconciliation loop *)

\* a bug: user_info[new] = user_info.pop(old, None)
PopRenameWithDefault(user_info, old, new) ==
    [raised |-> NoError,
     rec |-> Put(Del(user_info, old), new,
                 IF Has(user_info, old) THEN user_info[old] ELSE PyNone)]

\* user_info[new] = user_info.pop(old)
PopRename(user_info, old, new) ==
    IF Has(user_info, old)
    THEN [raised |-> NoError, rec |-> Put(Del(user_info, old), new, user_info[old])]
    ELSE [raised |-> "KeyError", rec |-> user_info]

\* v = user_info.pop(old, None); if v: user_info[new] = v
PopOptional(user_info, old, new) ==
    IF ~Has(user_info, old)
    THEN [raised |-> NoError, rec |-> user_info]
    ELSE IF Truthy(user_info[old])
    THEN [raised |-> NoError, rec |-> Put(Del(user_info, old), new, user_info[old])]
    ELSE [raised |-> NoError, rec |-> Del(user_info, old)]

\* user_info['connection'] = user_info.get('Connection')
CopyConnection(user_info) ==
    [raised |-> NoError,
     rec |-> Put(user_info, "connection",
                 IF Has(user_info, "Connection") THEN user_info["Connection"] ELSE PyNone)]

\* a bug: the first six characters go, whatever they are
StripSixCharacters(user_id) == SliceFrom(user_id, 6)

\* if user_id.startswith('auth0|'): user_id = user_id[6:]
StripProviderPrefix(user_id) ==
    IF StartsWith(user_id, Auth0Prefix)
    THEN SliceFrom(user_id, 6)
    ELSE user_id

\* user_id = user_info.pop('Id'); ...; user_info['id'] = user_id
RenameId(user_info) ==
    IF Has(user_info, "Id")
    THEN [raised |-> NoError,
          rec |-> Put(Del(user_info, "Id"), "id", StripProviderPrefix(user_info["Id"]))]
    ELSE [raised |-> "KeyError", rec |-> user_info]

\* lines 131-146, in order; an exception leaves the dict as far as it got
NormalizeFields(user_info) ==
    LET s1 == PopRename(user_info, "Email", "email")
        s2 == IF s1.raised # NoError THEN s1
              ELSE PopRename(s1.rec, "Email Verified", "email_verified")
        s3 == IF s2.raised # NoError THEN s2
              ELSE PopOptional(s2.rec, "Given Name", "given_name")
        s4 == IF s3.raised # NoError THEN s3
              ELSE PopOptional(s3.rec, "Family Name", "family_name")
        s5 == IF s4.raised # NoError THEN s4
              ELSE PopRename(s4.rec, "Name", "name")
        s6 == IF s5.raised # NoError THEN s5
              ELSE CopyConnection(s5.rec)
        s7 == IF s6.raised # NoError THEN s6
              ELSE RenameId(s6.rec)
    IN  s7

\* a bug: the users of the other connections are kept (line 165)
IsLocalUserAlways(user_info, db_name) == TRUE

\* user_info['Connection'] == database_name
IsLocalUser(user_info, db_name) == user_info["Connection"] = db_name

\* a bug: the wrong field of the hash record
AttachHashFromConnection(user_info, password_hash_info) ==
    Put(user_info, "password_hash", password_hash_info["connection"])

\* user_info['password_hash'] = password_hash_info['passwordHash']
AttachHash(user_info, password_hash_info) ==
    Put(user_info, "password_hash", password_hash_info["passwordHash"])

\* a bug: the user without a hash is reported and left out
EmitWithoutHashDropped(records, user_info) == records

\* output.append(user_info) of the except branch
EmitWithoutHash(records, user_info) == Append(records, user_info)

\* users_with_missing_passwords.append(email)
ReportMissing(missing, email) == Append(missing, email)

-----------------------------------------------------------------------------
(* Input files *)

\* a line of the users export
Profile(email, name, id, connection) ==
    ("Email Verified" :> "true") @@
    [Email |-> email, Name |-> name, Id |-> id, Connection |-> connection]

\* a line of the password hash export
Credential(email, password_hash, connection) ==
    [email |-> email, passwordHash |-> password_hash, connection |-> connection]

SeqsUpTo(S, n) == UNION {[1..k -> S] : k \in 0..n}

\* users exports that mix local and federated users, a stale password_hash
\* column, and the lines that are not one JSON object
JoinUserLines ==
    {ObjectLine(Profile(e, "A", "auth0|1", c)) : e \in {"a@x.com", "b@x.com"},
                                                  c \in {"Local", "Google"}}
    \cup {ObjectLine(Put(Profile("a@x.com", "A", "auth0|1", "Local"), "password_hash", "stale"))}
    \cup {MalformedLine, BlankLine, MultiLine}

JoinHashLines ==
    {ObjectLine(Credential("a@x.com", "h1", "Local")),
     ObjectLine(Credential("a@x.com", "h2", "Local")),
     ObjectLine(Credential("b@x.com", "h3", "Local")),
     ObjectLine(Credential("b@x.com", "h4", "Google")),
     ObjectLine(Del(Credential("a@x.com", "h1", "Local"), "passwordHash")),
     MalformedLine}

InitWith(UserLines, HashLines) ==
    /\ user_lines \in SeqsUpTo(UserLines, MaxUserLines)
    /\ \/ /\ hash_zip_entries = 1
          /\ hash_lines \in SeqsUpTo(HashLines, MaxHashLines)
       \/ /\ hash_zip_entries \in {0, 2}
          /\ hash_lines = <<>>
    /\ pc = "load_users"
    /\ user_info_by_email = EmptyIndex
    /\ password_hashes_by_email = EmptyIndex
    /\ database_name = PyNone
    /\ cursor = 1
    /\ output = <<>>
    /\ users_with_missing_passwords = <<>>
    /\ stdout = <<>>
    /\ stderr = <<>>
    /\ exit_status = NotExited
    /\ renormalized = <<>>

Init == InitWith(JoinUserLines, JoinHashLines)

-----------------------------------------------------------------------------
(* create_auth0_import *)

\* exit(status), or the interpreter dying of an uncaught exception
Exit(status, message) ==
    /\ pc' = "exited"
    /\ exit_status' = status
    /\ stderr' = Append(stderr, message)

\* lines 113-116
LoadUsers ==
    /\ pc = "load_users"
    /\ LET r == get_user_info_by_email(user_lines) IN
       CASE r.outcome = "invalid" ->
              /\ Exit(ExitInvalid, "The users export file contains invalid json (ndjson) content")
              /\ UNCHANGED user_info_by_email
         [] r.outcome = "ok" /\ r.index.keys = <<>> ->
              /\ Exit(ExitNoUsers, "No users found in the file")
              /\ UNCHANGED user_info_by_email
         [] r.outcome = "ok" /\ r.index.keys # <<>> ->
              /\ pc' = "load_hashes"
              /\ user_info_by_email' = r.index
              /\ UNCHANGED <<exit_status, stderr>>
         [] OTHER ->
              /\ Exit(ExitUncaught, r.outcome)
              /\ UNCHANGED user_info_by_email
    /\ UNCHANGED <<user_lines, hash_lines, hash_zip_entries, password_hashes_by_email,
                   database_name, cursor, output, users_with_missing_passwords, stdout,
                   renormalized>>

\* lines 117-120, with the archive check of get_hash_lines; the second
\* emptiness test looks at user_info_by_email again
LoadHashes ==
    /\ pc = "load_hashes"
    /\ IF hash_zip_entries # 1
       THEN /\ Exit(ExitInvalid, "The zip file with the hash export should contain exactly one file")
            /\ UNCHANGED password_hashes_by_email
       ELSE LET r == get_password_hashes_by_email(hash_lines) IN
            CASE r.outcome = "invalid" ->
                   /\ Exit(ExitInvalid, "The password hash export file contains invalid json (ndjson) content")
                   /\ UNCHANGED password_hashes_by_email
              [] r.outcome = "ok" /\ user_info_by_email.keys = <<>> ->
                   /\ Exit(ExitNoUsers, "No password hashes found in the file")
                   /\ password_hashes_by_email' = r.index
              [] r.outcome = "ok" /\ user_info_by_email.keys # <<>> ->
                   /\ pc' = "infer_db_name"
                   /\ password_hashes_by_email' = r.index
                   /\ UNCHANGED <<exit_status, stderr>>
              [] OTHER ->
                   /\ Exit(ExitUncaught, r.outcome)
                   /\ UNCHANGED password_hashes_by_email
    /\ UNCHANGED <<user_lines, hash_lines, hash_zip_entries, user_info_by_email,
                   database_name, cursor, output, users_with_missing_passwords, stdout,
                   renormalized>>

\* line 124
InferDbName ==
    /\ pc = "infer_db_name"
    /\ LET r == get_auth0_db_name(password_hashes_by_email) IN
       IF r.raised # NoError
       THEN /\ Exit(ExitUncaught, r.raised)
            /\ UNCHANGED database_name
       ELSE /\ pc' = "loop"
            /\ database_name' = r.name
            /\ UNCHANGED <<exit_status, stderr>>
    /\ UNCHANGED <<user_lines, hash_lines, hash_zip_entries, user_info_by_email,
                   password_hashes_by_email, cursor, output, users_with_missing_passwords,
                   stdout, renormalized>>

\* one pass of the for loop of lines 129-166; the dict of the index is
\* changed in place and is the object appended to output
LoopStep ==
    /\ pc = "loop"
    /\ cursor <= Len(user_info_by_email.keys)
    /\ LET email == user_info_by_email.keys[cursor]
           n == NormalizeFields(user_info_by_email.vals[email])
           user_info == n.rec
           found == Has(password_hashes_by_email.vals, email)
           hashed == AttachHash(user_info, password_hashes_by_email.vals[email])
           Store(rec) == user_info_by_email' =
                           [user_info_by_email EXCEPT !.vals = Put(@, email, rec)]
           Continue == /\ cursor' = cursor + 1
                       /\ pc' = IF cursor = Len(user_info_by_email.keys) THEN "print" ELSE "loop"
                       /\ UNCHANGED <<exit_status, stderr>>
           Raise(rec) == /\ Store(rec)
                         /\ Exit(ExitUncaught, "KeyError")
                         /\ UNCHANGED <<cursor, output, users_with_missing_passwords>>
       IN
       IF n.raised # NoError \/ ~Has(user_info, "Connection")
       THEN Raise(user_info)
       ELSE IF ~IsLocalUser(user_info, database_name)
       THEN /\ Store(user_info)
            /\ Continue
            /\ UNCHANGED <<output, users_with_missing_passwords>>
       ELSE IF ~found
       THEN /\ Store(user_info)
            /\ users_with_missing_passwords' = ReportMissing(users_with_missing_passwords, email)
            /\ output' = EmitWithoutHash(output, user_info)
            /\ Continue
       ELSE IF ~Has(password_hashes_by_email.vals[email], "passwordHash")
       THEN Raise(user_info)
       ELSE /\ Store(hashed)
            /\ output' = Append(output, hashed)
            /\ Continue
            /\ UNCHANGED users_with_missing_passwords
    /\ UNCHANGED <<user_lines, hash_lines, hash_zip_entries, password_hashes_by_email,
                   database_name, stdout, renormalized>>

\* json.dumps(output, indent=2): one JSON array holding the records in order
json_dumps(records) == [json_array |-> records]

\* lines 168-174, and the end of the script
PrintOutput ==
    /\ pc = "print"
    /\ stdout' = Append(stdout, json_dumps(output))
    /\ stderr' = IF users_with_missing_passwords # <<>>
                 THEN stderr \o <<"The following users were missing from the password hash file:">>
                             \o users_with_missing_passwords
                 ELSE stderr
    /\ pc' = "exited"
    /\ exit_status' = ExitNormal
    /\ UNCHANGED <<user_lines, hash_lines, hash_zip_entries, user_info_by_email,
                   password_hashes_by_email, database_name, cursor, output,
                   users_with_missing_passwords, renormalized>>

Next ==
    \/ LoadUsers
    \/ LoadHashes
    \/ InferDbName
    \/ LoopStep
    \/ PrintOutput

Spec == Init /\ [][Next]_vars

-----------------------------------------------------------------------------
(* Users exports that vary the fields of a record *)

FieldUserLines ==
    \* the forms of Id
    {ObjectLine(Profile("a@x.com", "A", id, "Local")) :
        id \in {"auth0|1", "auth0|auth0|1", "auth0|", "1"}}
    \cup {ObjectLine(Profile("b@x.com", "B", id, "Local")) :
        id \in {"google-oauth2|2", "x|auth0|2", "auth0", "Auth0|2"}}
    \* the optional names, filled in or empty
    \cup {ObjectLine(Put(Profile("b@x.com", "B", "2", "Local"), "Given Name", g)) :
        g \in {"Al", ""}}
    \cup {ObjectLine(Put(Put(Profile("b@x.com", "B", "2", "Local"), "Given Name", g),
                         "Family Name", f)) : g \in {"Al", ""}, f \in {"Bo"}}
    \cup {ObjectLine(Put(Profile("b@x.com", "B", "2", "Local"), "Family Name", ""))}
    \* a column the program does not know, a federated user
    \cup {ObjectLine(Put(Profile("b@x.com", "B", "2", "Local"), "Created At", "2024")),
          ObjectLine(Profile("b@x.com", "B", "google-oauth2|2", "Google"))}
    \* records that lack a column the program reads
    \cup {ObjectLine(Del(Profile("b@x.com", "B", "2", "Local"), k)) :
        k \in {"Email Verified", "Name", "Id", "Connection"}}

FieldHashLines ==
    {ObjectLine(Credential("a@x.com", "h1", "Local")),
     ObjectLine(Credential("b@x.com", "h2", "Local"))}

InitFields == InitWith(FieldUserLines, FieldHashLines)

\* lines 131-146 run once more, on a record the program has printed
Renormalize ==
    /\ pc = "exited"
    /\ stdout # <<>>
    /\ renormalized = <<>>
    /\ \E i \in 1..Len(output) :
          renormalized' = <<[input |-> output[i], result |-> NormalizeFields(output[i])]>>
    /\ UNCHANGED <<user_lines, hash_lines, hash_zip_entries, pc, user_info_by_email,
                   password_hashes_by_email, database_name, cursor, output,
                   users_with_missing_passwords, stdout, stderr, exit_status>>

NextFields ==
    \/ Next
    \/ Renormalize

SpecFields == InitFields /\ [][NextFields]_vars

-----------------------------------------------------------------------------
(* What the properties speak of, read off the input files and the printed  *)
(* document rather than off the program's own tables                       *)

\* the run went through the loop and printed its document
Finished == pc = "exited" /\ stdout # <<>>

\* the records of the printed JSON array
Printed == stdout[1].json_array

Range(seq) == {seq[i] : i \in 1..Len(seq)}

\* the values of a key over the lines of a file of objects
Identities(lines, key) == {lines[i].json[key] : i \in 1..Len(lines)}

\* the object of the last line of the file that has e under key
LastRecord(lines, key, e) ==
    lines[CHOOSE i \in 1..Len(lines) :
            /\ lines[i].json[key] = e
            /\ \A j \in (i + 1)..Len(lines) : lines[j].json[key] # e].json

SourceProfile(e) == LastRecord(user_lines, "Email", e)

SourceCredential(e) == LastRecord(hash_lines, "email", e)

\* the connection of the record that stands under the first key of the hashes file
InferredStore == SourceCredential(hash_lines[1].json["email"])["connection"]

PrintedFor(e) == {i \in 1..Len(Printed) : Printed[i]["email"] = e}

\* the text of the lines does not make a JSON array when joined by commas
Rejected(lines) ==
    \/ \E i \in 1..Len(lines) : lines[i].kind = "malformed"
    \/ Len(lines) > 1 /\ \E i \in 1..Len(lines) : lines[i].kind = "blank"

-----------------------------------------------------------------------------
(* C1: in a run that went through the reconciliation loop, a user of the   *)
(* users file is in the output if and only if the Connection of its record *)
(* is the local store's name taken from the hashes file; a user of another *)
(* connection is neither in the output nor in the list of missing hashes,  *)
(* also when the hashes file has a record for its email.                   *)
C1_OutputIffLocalConnection ==
    Finished =>
        \A e \in Identities(user_lines, "Email") :
            LET local == SourceProfile(e)["Connection"] = InferredStore IN
            /\ (PrintedFor(e) # {}) <=> local
            /\ ~local => e \notin Range(users_with_missing_passwords)

C1_Witness ==
    /\ Finished
    /\ \E e \in Identities(user_lines, "Email") :
          /\ SourceProfile(e)["Connection"] # InferredStore
          /\ e \in Identities(hash_lines, "email")
          /\ PrintedFor(e) = {}
    /\ \E e \in Identities(user_lines, "Email") :
          /\ SourceProfile(e)["Connection"] = InferredStore
          /\ PrintedFor(e) # {}

(* C2: a user that is in both files and whose Connection is the local      *)
(* store's name has an output record, and the password_hash of that record *)
(* is the passwordHash of the hash record of the same email.               *)
C2_HashCopiedVerbatim ==
    Finished =>
        \A e \in Identities(user_lines, "Email") \cap Identities(hash_lines, "email") :
            SourceProfile(e)["Connection"] = InferredStore =>
                /\ PrintedFor(e) # {}
                /\ \A i \in PrintedFor(e) :
                      /\ Has(Printed[i], "password_hash")
                      /\ Printed[i]["password_hash"] = SourceCredential(e)["passwordHash"]

C2_Witness ==
    /\ Finished
    /\ \E e \in Identities(user_lines, "Email") \cap Identities(hash_lines, "email") :
          /\ SourceProfile(e)["Connection"] = InferredStore
          /\ Has(SourceProfile(e), "password_hash")
          /\ \E i \in PrintedFor(e) : Printed[i]["password_hash"] = "h2"

(* C3, as claimed: a local user without a hash record is in the output,    *)
(* its output record has no password_hash whatever fields its record had,  *)
(* and its email is once in the list of missing hashes.                    *)
C3_Original ==
    Finished =>
        \A e \in Identities(user_lines, "Email") \ Identities(hash_lines, "email") :
            SourceProfile(e)["Connection"] = InferredStore =>
                /\ PrintedFor(e) # {}
                /\ \A i \in PrintedFor(e) : ~Has(Printed[i], "password_hash")
                /\ Cardinality({j \in 1..Len(users_with_missing_passwords) :
                                   users_with_missing_passwords[j] = e}) = 1

(* C3, amended: a local user without a hash record is in the output, its   *)
(* email is once in the list of missing hashes, and its output record has  *)
(* a password_hash only when the record of the users file had a field of   *)
(* that name, whose value it then keeps.                                   *)
C3_MissingHashReported ==
    Finished =>
        \A e \in Identities(user_lines, "Email") \ Identities(hash_lines, "email") :
            SourceProfile(e)["Connection"] = InferredStore =>
                /\ PrintedFor(e) # {}
                /\ \A i \in PrintedFor(e) :
                      /\ Has(Printed[i], "password_hash") <=> Has(SourceProfile(e), "password_hash")
                      /\ Has(Printed[i], "password_hash") =>
                            Printed[i]["password_hash"] = SourceProfile(e)["password_hash"]
                /\ Cardinality({j \in 1..Len(users_with_missing_passwords) :
                                   users_with_missing_passwords[j] = e}) = 1

C3_Witness ==
    /\ Finished
    /\ \E e \in Identities(user_lines, "Email") \ Identities(hash_lines, "email") :
          /\ SourceProfile(e)["Connection"] = InferredStore
          /\ ~Has(SourceProfile(e), "password_hash")
          /\ PrintedFor(e) # {}
          /\ e \in Range(users_with_missing_passwords)

(* C4: with users indexed and a hashes file of no records, the run ends    *)
(* with status 0 and nothing printed, and never comes to infer the local   *)
(* store's name.                                                           *)
C4_EmptyHashesIsNoOp ==
    (/\ pc = "exited"
     /\ user_info_by_email.keys # <<>>
     /\ hash_zip_entries = 1
     /\ hash_lines = <<>>)
    => /\ exit_status = 0
       /\ stdout = <<>>
       /\ "StopIteration" \notin Range(stderr)

(* C5, as claimed: with a users file of no records, whatever the hashes    *)
(* file, the run ends with status 0 and has printed an empty JSON array.   *)
C5_Original ==
    (pc = "exited" /\ user_lines = <<>>) =>
        /\ exit_status = 0
        /\ stdout = <<json_dumps(<<>>)>>

(* C5, amended: with a users file of no lines, whatever the hashes file,   *)
(* the run ends with status 0 and has printed nothing to stdout; the       *)
(* hashes file is not read.                                                *)
C5_EmptyUsersExitsClean ==
    (pc = "exited" /\ user_lines = <<>>) =>
        /\ exit_status = 0
        /\ stdout = <<>>
        /\ password_hashes_by_email = EmptyIndex
        /\ stderr = <<"No users found in the file">>

C5_Witness ==
    /\ pc = "exited"
    /\ user_lines = <<>>
    /\ Rejected(hash_lines)
    /\ exit_status = 0

(* C6, as claimed: when either file fails the validity check, the run ends *)
(* with a status other than 0 and nothing printed, whatever the other file *)
(* holds, and no record of the failing file is indexed.                    *)
C6_Original ==
    (pc = "exited" /\ (Rejected(user_lines) \/ Rejected(hash_lines))) =>
        /\ exit_status # 0
        /\ stdout = <<>>
        /\ Rejected(user_lines) => user_info_by_email = EmptyIndex
        /\ Rejected(hash_lines) => password_hashes_by_email = EmptyIndex

(* C6, amended: a users file that fails the validity check ends the run    *)
(* with a status other than 0, whatever the hashes file holds; a hashes    *)
(* file that fails it does so whenever the users file has a line, and with *)
(* a users file of no lines the run ends with status 0 before the hashes   *)
(* file is read.  In each case nothing is printed and no record of the     *)
(* failing file is indexed.                                                *)
C6_MalformedInputIsFatal ==
    pc = "exited" =>
        /\ Rejected(user_lines) =>
              /\ exit_status # 0
              /\ stdout = <<>>
              /\ user_info_by_email = EmptyIndex
              /\ password_hashes_by_email = EmptyIndex
        /\ Rejected(hash_lines) =>
              /\ exit_status # 0 <=> user_lines # <<>>
              /\ stdout = <<>>
              /\ password_hashes_by_email = EmptyIndex

C6_Witness ==
    /\ pc = "exited"
    /\ Rejected(hash_lines)
    /\ user_info_by_email.keys # <<>>
    /\ exit_status = -1
    /\ stdout = <<>>

(* C10: the indexes keep the last record of a key: each key stands once in *)
(* its index, with the record of the last line that has it; the output has *)
(* at most one record for an email, and the password_hash it got is that   *)
(* of the last line of the hashes file with that email.                    *)
LastWins(index, lines, key) ==
    /\ Len(index.keys) = Cardinality(Range(index.keys))
    /\ Range(index.keys) = Identities(lines, key)
    /\ DOMAIN index.vals = Identities(lines, key)
    /\ \A e \in Identities(lines, key) : index.vals[e] = LastRecord(lines, key, e)

C10_IndexingIsLastWins ==
    /\ pc = "load_hashes" => LastWins(user_info_by_email, user_lines, "Email")
    /\ (pc \in {"infer_db_name", "loop", "print"} \/ Finished) =>
          LastWins(password_hashes_by_email, hash_lines, "email")
    /\ Finished =>
          \A i, j \in 1..Len(Printed) :
              /\ Printed[i]["email"] = Printed[j]["email"] => i = j
              /\ Printed[i]["email"] \in Identities(hash_lines, "email") =>
                    Printed[i]["password_hash"] =
                        SourceCredential(Printed[i]["email"])["passwordHash"]

C10_Witness ==
    /\ Finished
    /\ Len(user_lines) = 2
    /\ user_lines[1] # user_lines[2]
    /\ user_lines[1].json["Email"] = user_lines[2].json["Email"]
    /\ Len(hash_lines) = 2
    /\ hash_lines[1].json["email"] = hash_lines[2].json["email"]
    /\ Has(hash_lines[1].json, "passwordHash")
    /\ Has(hash_lines[2].json, "passwordHash")
    /\ hash_lines[1].json["passwordHash"] # hash_lines[2].json["passwordHash"]
    /\ Len(Printed) = 1
    /\ Has(Printed[1], "password_hash")
    /\ Printed[1]["password_hash"] = hash_lines[2].json["passwordHash"]

-----------------------------------------------------------------------------
(* The shape of an output record *)

\* the columns of the users export that the program reads
EssentialKeys ==
    {"Email", "Email Verified", "Name", "Given Name", "Family Name", "Id", "Connection"}

HasFilled(record, key) == Has(record, key) /\ record[key] # ""

\* the keys of the import schema that a record of the users file gives rise to
SchemaKeys(source, matched) ==
    {"email", "email_verified", "name", "connection", "id"}
    \cup (IF HasFilled(source, "Given Name") THEN {"given_name"} ELSE {})
    \cup (IF HasFilled(source, "Family Name") THEN {"family_name"} ELSE {})
    \cup (IF matched THEN {"password_hash"} ELSE {})

\* Email a@x.com, Name A, Id auth0|1, Connection Local, Email Verified true,
\* with the hash h1 of a@x.com in the connection Local
IsScenario ==
    /\ user_lines = <<ObjectLine(Profile("a@x.com", "A", "auth0|1", "Local"))>>
    /\ hash_zip_entries = 1
    /\ hash_lines = <<ObjectLine(Credential("a@x.com", "h1", "Local"))>>

ScenarioRecord ==
    [email |-> "a@x.com", email_verified |-> "true", name |-> "A",
     connection |-> "Local", id |-> "1", password_hash |-> "h1"]

(* C7, as claimed: the output record of a user whose record has only the   *)
(* columns the program reads has the keys of the import schema and no      *)
(* other; the scenario prints exactly its one record of six fields, and    *)
(* reports no missing hash.                                                *)
C7_Original ==
    Finished =>
        /\ \A i \in 1..Len(Printed) :
              LET source == SourceProfile(Printed[i]["email"])
                  matched == Printed[i]["email"] \in Identities(hash_lines, "email")
              IN  DOMAIN source \subseteq EssentialKeys =>
                      DOMAIN Printed[i] = SchemaKeys(source, matched)
        /\ IsScenario =>
              /\ Printed = <<ScenarioRecord>>
              /\ users_with_missing_passwords = <<>>

(* C7, amended: the output record of such a user has the keys of the       *)
(* import schema and, besides them, the key Connection of the users file,  *)
(* which the program copies and does not remove; the scenario prints its   *)
(* one record with the six fields and Connection: Local, and reports no    *)
(* missing hash.                                                           *)
C7_SchemaKeysAndConnection ==
    Finished =>
        /\ \A i \in 1..Len(Printed) :
              LET source == SourceProfile(Printed[i]["email"])
                  matched == Printed[i]["email"] \in Identities(hash_lines, "email")
              IN  DOMAIN source \subseteq EssentialKeys =>
                      DOMAIN Printed[i] = SchemaKeys(source, matched) \cup {"Connection"}
        /\ IsScenario =>
              /\ Printed = <<Put(ScenarioRecord, "Connection", "Local")>>
              /\ users_with_missing_passwords = <<>>

C7_Witness ==
    /\ Finished
    /\ IsScenario
    /\ Len(Printed) = 1
    /\ Printed[1]["id"] = "1"

(* C8, as claimed: the field renames, run on a record that is already in   *)
(* output shape, end without error and leave the record as it was.         *)
C8_Original ==
    renormalized # <<>> =>
        /\ renormalized[1].result.raised = NoError
        /\ renormalized[1].result.rec = renormalized[1].input

(* C8, amended: the field renames, run on a record the program has put     *)
(* out, do not end: the first of them raises KeyError, the record having   *)
(* no Email any more; the record is left as it was.                        *)
C8_RenormalizeRaises ==
    renormalized # <<>> =>
        /\ renormalized[1].result.raised = "KeyError"
        /\ renormalized[1].result.rec = renormalized[1].input
        /\ ~Has(renormalized[1].input, "Email")

C8_Witness ==
    /\ renormalized # <<>>
    /\ Has(renormalized[1].input, "given_name")
    /\ Has(renormalized[1].input, "password_hash")

(* C9: the id of an output record is the Id of the user's record without   *)
(* its leading auth0| when the Id begins with auth0|, and the Id as it is  *)
(* otherwise.                                                              *)
BeginsWithAuth0(id) ==
    /\ Len(id) >= 6
    /\ \A k \in 1..6 : SubSeq(id, k, k) = SubSeq("auth0|", k, k)

C9_PrefixStripped ==
    Finished =>
        \A i \in 1..Len(Printed) :
            LET id == SourceProfile(Printed[i]["email"])["Id"] IN
            IF BeginsWithAuth0(id)
            THEN "auth0|" \o Printed[i]["id"] = id
            ELSE Printed[i]["id"] = id

C9_Witness ==
    /\ Finished
    /\ \E i, j \in 1..Len(Printed) :
          /\ SourceProfile(Printed[i]["email"])["Id"] = "auth0|auth0|1"
          /\ Printed[i]["id"] = "auth0|1"
          /\ SourceProfile(Printed[j]["email"])["Id"] = "x|auth0|2"
          /\ Printed[j]["id"] = "x|auth0|2"

====
